---- MODULE Spec2Model ----
(***************************************************************************)
(* Model of flashcards.py: a console flashcard utility.                    *)
(*                                                                         *)
(* main() loads the flashcard file (load_flashcards), then runs            *)
(* show_flashcards, which registers the Esc / q hotkeys and prints a       *)
(* randomly chosen card every `wait` seconds until the hotkey handler      *)
(* quit_flashcards sets the global stop_flashcards.                        *)
(*                                                                         *)
(* A character is one of the strings in Chars; a line, a card and a file   *)
(* are sequences of characters.  An optional value (Python None or a       *)
(* value) is a sequence of length 0 or 1.                                  *)
(***************************************************************************)
EXTENDS Integers, Sequences, FiniteSets, TLC

VARIABLES
    fs,               \* what opening/reading flashcard_file does: "ok", "missing", "undecodable"
    file,             \* the characters stored in flashcard_file
    wait,             \* type of args.wait: "int" (the default 5) or "str" (given with -w)
    flashcards,       \* global flashcards: list of cards
    stop_flashcards,  \* global stop_flashcards
    hotkeys,          \* TRUE once keyboard.add_hotkey registered Esc and q
    pc,               \* position of the main thread
    card,             \* local card of show_flashcards (optional)
    last_card,        \* local last_card of show_flashcards (optional, None = <<>>)
    exc,              \* exception that escaped main ("none" if none)
    exitCode,         \* process exit code (optional: <<>> while running)
    shown,            \* observer: the last two cards printed by show_flashcards
    afterStop,        \* observer: cards printed since stop_flashcards became True (saturating)
    stopAt            \* observer: pc of the main thread when stop_flashcards became True

vars == <<fs, file, wait, flashcards, stop_flashcards, hotkeys, pc, card,
          last_card, exc, exitCode, shown, afterStop, stopAt>>

(***************************************************************************)
(* Bounds                                                                  *)
(***************************************************************************)
\* Every file of at most MaxFileLen characters is an input.
MaxFileLen == 3

\* afterStop saturates at MaxCount.
MaxCount == 2

(***************************************************************************)
(* Inputs                                                                  *)
(***************************************************************************)
LF == "LF"    \* \n
CR == "CR"    \* \r
FF == "FF"    \* \x0c (form feed), one of the non-newline boundaries of str.splitlines

Chars == {"a", "b", "#", LF, CR, FF}

\* A few longer files, so that decks of three and four cards occur.
SampleFiles ==
    { <<"a", LF, "b", LF, "a", "b", LF>>,
      <<"a", LF, "#", "b", LF, "b", LF, LF, "a", "b", LF>>,
      <<"a", CR, LF, "b", LF, "a", LF, "a", "b">>,
      <<"a", LF, "a", LF, "a", LF>> }

Files == (UNION { [1..k -> Chars] : k \in 0..MaxFileLen }) \cup SampleFiles

FsOutcomes == {"ok", "missing", "undecodable"}

WaitTypes == {"int", "str"}

Keys == {"Esc", "q"}

None == <<>>

Some(x) == <<x>>

(***************************************************************************)
(* load_flashcards                                                         *)
(***************************************************************************)
\* open(flashcard_file) is text mode with universal newlines: f.read()
\* returns the text with \r\n and \r translated to \n.
RECURSIVE Read(_)
Read(s) ==
    IF s = <<>> THEN <<>>
    ELSE IF s[1] = CR
         THEN <<LF>> \o Read(IF Len(s) > 1 /\ s[2] = LF
                             THEN SubSeq(s, 3, Len(s))
                             ELSE Tail(s))
         ELSE <<s[1]>> \o Read(Tail(s))

\* The characters str.splitlines breaks a line at (\r\n counts as one).
LineBoundaries == {LF, CR, FF}

\* str.splitlines(): the pieces between line boundaries, boundaries removed,
\* no empty piece after a final boundary.
RECURSIVE SplitFrom(_, _)
SplitFrom(s, cur) ==
    IF s = <<>> THEN (IF cur = <<>> THEN <<>> ELSE <<cur>>)
    ELSE IF s[1] \in LineBoundaries
         THEN <<cur>> \o SplitFrom(IF s[1] = CR /\ Len(s) > 1 /\ s[2] = LF
                                   THEN SubSeq(s, 3, Len(s))
                                   ELSE Tail(s), <<>>)
         ELSE SplitFrom(Tail(s), Append(cur, s[1]))

splitlines(s) == SplitFrom(s, <<>>)

\* `card and card[0] != '#'`
KeepCard(c) == c # <<>> /\ c[1] # "#"

\* [card for card in flashcards if card and card[0] != '#']
RemoveComments(lines) == SelectSeq(lines, KeepCard)

\* main, `if not load_flashcards(flashcard_file)`, the file was read.
LoadOk ==
    /\ pc = "start"
    /\ fs = "ok"
    /\ flashcards' = RemoveComments(splitlines(Read(file)))
    /\ pc' = "hotkeys"
    /\ UNCHANGED <<fs, file, wait, stop_flashcards, hotkeys, card, last_card,
                   exc, exitCode, shown, afterStop, stopAt>>

\* open() raises OSError: load_flashcards prints it and returns False,
\* main calls exit(1).
LoadOSError ==
    /\ pc = "start"
    /\ fs = "missing"
    /\ pc' = "done"
    /\ exitCode' = Some(1)
    /\ UNCHANGED <<fs, file, wait, flashcards, stop_flashcards, hotkeys, card,
                   last_card, exc, shown, afterStop, stopAt>>

\* f.read() raises UnicodeDecodeError (a ValueError, not an OSError): the
\* except clause does not match, the exception leaves load_flashcards and
\* main, and the interpreter ends with a traceback and exit code 1.
LoadDecodeError ==
    /\ pc = "start"
    /\ fs = "undecodable"
    /\ pc' = "done"
    /\ exc' = "UnicodeDecodeError"
    /\ exitCode' = Some(1)
    /\ UNCHANGED <<fs, file, wait, flashcards, stop_flashcards, hotkeys, card,
                   last_card, shown, afterStop, stopAt>>

(***************************************************************************)
(* quit_flashcards, run by the keyboard listener thread                    *)
(***************************************************************************)
quit_flashcards_Toggle ==
    /\ stop_flashcards' = ~stop_flashcards
    /\ stopAt' = IF stop_flashcards THEN stopAt ELSE pc

quit_flashcards ==
    /\ stop_flashcards' = TRUE
    /\ stopAt' = IF stop_flashcards THEN stopAt ELSE pc

\* The hotkey callback of key k; it exists once add_hotkey has run and
\* while the process is alive.
KeyHandler(k) ==
    /\ hotkeys
    /\ pc # "done"
    /\ quit_flashcards
    /\ UNCHANGED <<fs, file, wait, flashcards, hotkeys, pc, card, last_card,
                   exc, exitCode, shown, afterStop>>

(***************************************************************************)
(* show_flashcards                                                         *)
(***************************************************************************)
LoopPcs == {"while", "choice", "inner", "rechoice", "print", "sleep"}

\* Between the loop test and the print of an iteration.
BodyPcs == {"choice", "inner", "rechoice", "print"}

\* keyboard.add_hotkey('Esc', ...); keyboard.add_hotkey('q', ...);
\* random.seed(); last_card = None
AddHotkeys ==
    /\ pc = "hotkeys"
    /\ hotkeys' = TRUE
    /\ last_card' = None
    /\ pc' = "while"
    /\ UNCHANGED <<fs, file, wait, flashcards, stop_flashcards, card, exc,
                   exitCode, shown, afterStop, stopAt>>

WhileTest_IgnoreStop ==
    /\ pc = "while"
    /\ pc' = "choice"
    /\ UNCHANGED <<fs, file, wait, flashcards, stop_flashcards, hotkeys, card,
                   last_card, exc, exitCode, shown, afterStop, stopAt>>

\* while not stop_flashcards:
WhileTest ==
    /\ pc = "while"
    /\ pc' = IF stop_flashcards THEN "return" ELSE "choice"
    /\ UNCHANGED <<fs, file, wait, flashcards, stop_flashcards, hotkeys, card,
                   last_card, exc, exitCode, shown, afterStop, stopAt>>

\* card = random.choice(flashcards), the random index being i
Choice(i) ==
    /\ pc = "choice"
    /\ i \in 1..Len(flashcards)
    /\ card' = Some(flashcards[i])
    /\ pc' = "inner"
    /\ UNCHANGED <<fs, file, wait, flashcards, stop_flashcards, hotkeys,
                   last_card, exc, exitCode, shown, afterStop, stopAt>>

\* random.choice of an empty list raises IndexError, which leaves main.
ChoiceEmpty ==
    /\ pc = "choice"
    /\ flashcards = <<>>
    /\ pc' = "done"
    /\ exc' = "IndexError"
    /\ exitCode' = Some(1)
    /\ UNCHANGED <<fs, file, wait, flashcards, stop_flashcards, hotkeys, card,
                   last_card, shown, afterStop, stopAt>>

InnerTest_NoRecheck ==
    /\ pc = "inner"
    /\ pc' = "print"
    /\ UNCHANGED <<fs, file, wait, flashcards, stop_flashcards, hotkeys, card,
                   last_card, exc, exitCode, shown, afterStop, stopAt>>

\* while card == last_card:
InnerTest ==
    /\ pc = "inner"
    /\ pc' = IF card = last_card THEN "rechoice" ELSE "print"
    /\ UNCHANGED <<fs, file, wait, flashcards, stop_flashcards, hotkeys, card,
                   last_card, exc, exitCode, shown, afterStop, stopAt>>

\* card = random.choice(flashcards) in the inner loop, the random index being i
Rechoice(i) ==
    /\ pc = "rechoice"
    /\ i \in 1..Len(flashcards)
    /\ card' = Some(flashcards[i])
    /\ pc' = "inner"
    /\ UNCHANGED <<fs, file, wait, flashcards, stop_flashcards, hotkeys,
                   last_card, exc, exitCode, shown, afterStop, stopAt>>

\* print(card); last_card = card
PrintCard ==
    /\ pc = "print"
    /\ shown' = IF Len(shown) < 2 THEN Append(shown, card[1])
                                  ELSE <<shown[2], card[1]>>
    /\ afterStop' = IF stop_flashcards /\ afterStop < MaxCount
                    THEN afterStop + 1 ELSE afterStop
    /\ last_card' = card
    /\ pc' = "sleep"
    /\ UNCHANGED <<fs, file, wait, flashcards, stop_flashcards, hotkeys, card,
                   exc, exitCode, stopAt>>

Sleep_ThenChoice ==
    /\ pc = "sleep"
    /\ wait = "int"
    /\ pc' = "choice"
    /\ UNCHANGED <<fs, file, wait, flashcards, stop_flashcards, hotkeys, card,
                   last_card, exc, exitCode, shown, afterStop, stopAt>>

\* time.sleep(wait) returns
Sleep ==
    /\ pc = "sleep"
    /\ wait = "int"
    /\ pc' = "while"
    /\ UNCHANGED <<fs, file, wait, flashcards, stop_flashcards, hotkeys, card,
                   last_card, exc, exitCode, shown, afterStop, stopAt>>

\* time.sleep(wait) with the string argparse stores for -w raises TypeError,
\* which leaves main.
SleepTypeError ==
    /\ pc = "sleep"
    /\ wait = "str"
    /\ pc' = "done"
    /\ exc' = "TypeError"
    /\ exitCode' = Some(1)
    /\ UNCHANGED <<fs, file, wait, flashcards, stop_flashcards, hotkeys, card,
                   last_card, shown, afterStop, stopAt>>

\* show_flashcards returns and main ends: exit code 0.
MainReturn ==
    /\ pc = "return"
    /\ pc' = "done"
    /\ exitCode' = Some(0)
    /\ UNCHANGED <<fs, file, wait, flashcards, stop_flashcards, hotkeys, card,
                   last_card, exc, shown, afterStop, stopAt>>

(***************************************************************************)
(* Specification                                                           *)
(***************************************************************************)
Init ==
    /\ fs \in FsOutcomes
    /\ file \in (IF fs = "ok" THEN Files ELSE {<<>>})
    /\ wait \in WaitTypes
    /\ flashcards = <<>>
    /\ stop_flashcards = FALSE
    /\ hotkeys = FALSE
    /\ pc = "start"
    /\ card = None
    /\ last_card = None
    /\ exc = "none"
    /\ exitCode = None
    /\ shown = <<>>
    /\ afterStop = 0
    /\ stopAt = "none"

\* The indexes random.choice can draw: no input file yields a longer deck.
DeckIndexes == 1..(MaxFileLen + 4)

\* A step of the main thread.
MainStep ==
    \/ LoadOk
    \/ LoadOSError
    \/ LoadDecodeError
    \/ AddHotkeys
    \/ WhileTest
    \/ \E i \in DeckIndexes : Choice(i)
    \/ ChoiceEmpty
    \/ InnerTest
    \/ \E i \in DeckIndexes : Rechoice(i)
    \/ PrintCard
    \/ Sleep
    \/ SleepTypeError
    \/ MainReturn

Next ==
    \/ MainStep
    \/ \E k \in Keys : KeyHandler(k)

Spec == Init /\ [][Next]_vars

\* A draw of the inner loop that comes out different from last_card.
FreshRechoice ==
    \E i \in DeckIndexes : Rechoice(i) /\ card' # last_card

\* The main thread keeps running, and the random choice is fair: when a
\* draw different from last_card is possible again and again, one is
\* eventually made.  Key presses are up to the user: no fairness.
FairSpec ==
    /\ Spec
    /\ WF_vars(MainStep)
    /\ SF_vars(FreshRechoice)

TypeOK ==
    /\ fs \in FsOutcomes
    /\ wait \in WaitTypes
    /\ stop_flashcards \in BOOLEAN
    /\ hotkeys \in BOOLEAN
    /\ pc \in {"start", "hotkeys", "return", "done"} \cup LoopPcs
    /\ Len(card) <= 1
    /\ Len(last_card) <= 1
    /\ Len(shown) <= 2
    /\ afterStop \in 0..MaxCount

(***************************************************************************)
(* Claims                                                                  *)
(***************************************************************************)

\* C1: with a deck of exactly one card show_flashcards never hangs: every
\* cycle that starts (the loop test passed with the flag unset, the thread
\* is at the choice) prints the card and reaches the wait.
C1_SingleCardCycleReachesWait ==
    (Len(flashcards) = 1 /\ pc = "choice") ~> (pc = "sleep")

\* C2: with a deck of two or more cards, two cards printed consecutively
\* are different.
C2_NoImmediateRepeat ==
    (Len(flashcards) >= 2 /\ Len(shown) = 2) => shown[1] # shown[2]

C2_Witness ==
    /\ Len(flashcards) >= 3
    /\ Len(shown) = 2
    /\ afterStop = 0
    /\ pc = "sleep"

\* C3: the display loop never runs with an empty deck.
C3_LoopDeckNonEmpty ==
    pc \in LoopPcs => flashcards # <<>>

\* C4 as claimed: once the flag is set, before or during a wait, no card is
\* printed any more, and a flag set at the wait or at the loop test lets no
\* further iteration start.
C4_NoOutputAfterStop ==
    stop_flashcards =>
        /\ afterStop = 0
        /\ stopAt \in {"while", "sleep"} => pc \notin BodyPcs

\* C4 as amended: a flag set once the iteration's card is printed (just
\* before or during the wait) or at the loop test lets no further iteration
\* start, and no card is printed after it.
C4_StopAtWaitEndsLoop ==
    stopAt \in {"while", "sleep"} => (afterStop = 0 /\ pc \notin BodyPcs)

C4_Witness ==
    /\ stopAt = "sleep"
    /\ pc = "return"
    /\ Len(shown) = 2

\* The lines of a text file: the characters between line terminators
\* (\n, \r\n or \r), terminators removed.
RECURSIVE FileLinesFrom(_, _)
FileLinesFrom(s, cur) ==
    IF s = <<>> THEN (IF cur = <<>> THEN <<>> ELSE <<cur>>)
    ELSE IF s[1] = CR /\ Len(s) > 1 /\ s[2] = LF
         THEN <<cur>> \o FileLinesFrom(SubSeq(s, 3, Len(s)), <<>>)
    ELSE IF s[1] \in {LF, CR}
         THEN <<cur>> \o FileLinesFrom(Tail(s), <<>>)
    ELSE FileLinesFrom(Tail(s), Append(cur, s[1]))

IsCardLine(l) == Len(l) > 0 /\ Head(l) # "#"

\* C5: after a successful load the deck is exactly the file's lines that
\* are non-empty and do not start with '#', in order, duplicates kept.
C5_DeckIsFilteredLines ==
    (fs = "ok" /\ pc # "start") =>
        flashcards = SelectSeq(FileLinesFrom(file, <<>>), IsCardLine)

\* C6: when the file cannot be opened or read, no exception escapes, the
\* deck is unchanged, the exit code is 1, no hotkey is registered and no
\* card is printed.
C6_LoadFailureExitsOne ==
    (fs # "ok" /\ pc # "start") =>
        /\ exc = "none"
        /\ flashcards = <<>>
        /\ pc = "done"
        /\ exitCode = Some(1)
        /\ ~hotkeys
        /\ shown = <<>>

\* C7: the stop flag starts False, only the key handler changes it, and
\* once True it stays True.
C7_StopFlagOnlySetByHandler ==
    /\ ~stop_flashcards
    /\ [][ /\ stop_flashcards => stop_flashcards'
           /\ stop_flashcards' # stop_flashcards =>
                  /\ hotkeys
                  /\ UNCHANGED <<flashcards, pc, card, last_card, shown>> ]_vars

C7_Witness ==
    /\ stop_flashcards
    /\ stopAt = "choice"
    /\ pc = "done"
    /\ afterStop = 1

\* C8: once a key was pressed while the loop runs on a non-empty deck, the
\* program eventually ends with exit code 0 and no error.  (Stated for a
\* numeric wait only, the case in which time.sleep does not raise.)
C8_StopLeadsToCleanExit ==
    (stop_flashcards /\ pc \in LoopPcs /\ flashcards # <<>> /\ wait = "int")
        ~> (pc = "done" /\ exitCode = Some(0) /\ exc = "none")

\* C9: with more than one card in the deck the re-choose loop terminates:
\* every iteration that reached the inner test eventually prints.
C9_RechooseTerminates ==
    (Len(flashcards) > 1 /\ pc = "inner") ~> (pc = "print")

\* C10: at most one card is printed after the stop flag became True.
C10_AtMostOneCardAfterStop ==
    afterStop <= 1

C10_Witness ==
    /\ afterStop = 1
    /\ stopAt \in {"inner", "rechoice"}
    /\ pc = "return"
====
